---- MODULE Spec2Model ----
(***************************************************************************)
(* Verification model of the constraint-verification engine                *)
(* (checkCounterExample.py, subgraphChecks.py) and of the randomized       *)
(* search driver that consumes it.                                         *)
(*                                                                         *)
(* An edge is the 4-tuple <<n1, n2, c1, c2>>.  A Python container of edges *)
(* (a list, or a set with its iteration order) is a sequence without       *)
(* repetitions.  A Python dict is the record [keys |-> insertion order,    *)
(* val |-> mapping].  A Python call that either returns a boolean or       *)
(* raises returns one of the strings "True", "False", "RuntimeError".      *)
(***************************************************************************)
EXTENDS Integers, Sequences, FiniteSets, TLC

VARIABLES vertices, colors, edges, pc, ret, min_graph, min_graph_len, all_min_graphs, held,
          files, files_to_check

vars == <<vertices, colors, edges, pc, ret, min_graph, min_graph_len, all_min_graphs, held, files, files_to_check>>

(***************************************************************************)
(* Generic helpers for Python containers.                                  *)
(***************************************************************************)
Range(s) == {s[i] : i \in 1..Len(s)}

NoneValue == "None"

\* Python's tuple comparison (lexicographic) on two edges.
TupleLess(e, f) ==
    \E i \in 1..4 : e[i] < f[i] /\ \A j \in 1..(i - 1) : e[j] = f[j]

RECURSIVE InsertSorted(_, _)
InsertSorted(s, e) ==
    IF s = <<>> THEN <<e>>
    ELSE IF TupleLess(e, Head(s)) THEN <<e>> \o s
    ELSE <<Head(s)>> \o InsertSorted(Tail(s), e)

RECURSIVE sorted(_)
\* sorted(list): ascending order of the tuples of the list.
sorted(s) == IF s = <<>> THEN <<>> ELSE InsertSorted(sorted(Tail(s)), Head(s))

Reverse(s) == [i \in 1..Len(s) |-> s[Len(s) + 1 - i]]

\* The positions of s that hold the first occurrence of their element, in order.
FirstPositions(s) ==
    SelectSeq([i \in 1..Len(s) |-> i], LAMBDA i : \A j \in 1..(i - 1) : s[j] # s[i])

\* Keeps the first occurrence of every element (a set or dict keys built from a list).
Dedup(s) ==
    LET firsts == FirstPositions(s)
    IN [k \in 1..Len(firsts) |-> s[firsts[k]]]

(***************************************************************************)
(* checkCounterExample.py: matchings and IVC conditions                    *)
(***************************************************************************)
NumVertices == 6
NumColors == 3

AllVertices == 0..(NumVertices - 1)

get_edges_of_vertices(edge_list, vs) ==
    SelectSeq(edge_list, LAMBDA edge : {edge[1], edge[2]} \subseteq vs)

\* Variant of the nested loops that adds each triple in pick order, without sorting.
get_perfect_matchings_Unsorted(edge_list) ==
    UNION { LET subgraph1 == get_edges_of_vertices(edge_list, AllVertices \ {edge1[1], edge1[2]})
            IN UNION { LET subgraph2 == get_edges_of_vertices(subgraph1,
                                   (AllVertices \ {edge1[1], edge1[2]}) \ {edge2[1], edge2[2]})
                       IN { <<edge1, edge2, edge3>> : edge3 \in Range(subgraph2) }
                     : edge2 \in Range(subgraph1) }
          : edge1 \in Range(edge_list) }

\* The three nested loops; matchings_set is a set of sorted 3-tuples of edges.
get_perfect_matchings(edge_list) ==
    UNION { LET subgraph1 == get_edges_of_vertices(edge_list, AllVertices \ {edge1[1], edge1[2]})
            IN UNION { LET subgraph2 == get_edges_of_vertices(subgraph1,
                                   (AllVertices \ {edge1[1], edge1[2]}) \ {edge2[1], edge2[2]})
                       IN { sorted(<<edge1, edge2, edge3>>) : edge3 \in Range(subgraph2) }
                     : edge2 \in Range(subgraph1) }
          : edge1 \in Range(edge_list) }

RECURSIVE get_ivc_from(_, _)
get_ivc_from(vertex_colors, perfect_matching) ==
    IF perfect_matching = <<>> THEN vertex_colors
    ELSE LET edge == Head(perfect_matching)
         IN get_ivc_from([vertex_colors EXCEPT ![edge[1] + 1] = edge[3],
                                               ![edge[2] + 1] = edge[4]],
                         Tail(perfect_matching))

\* vertex_colors is a list of 6 entries; entry v+1 of the sequence is vertex v.
get_ivc(perfect_matching) ==
    get_ivc_from([v \in 1..NumVertices |-> NoneValue], perfect_matching)

\* itertools.product(range(3), repeat=6), entry i (0-based) in product order.
NumIvcs == 729
Pow3(k) == CASE k = 0 -> 1 [] k = 1 -> 3 [] k = 2 -> 9 [] k = 3 -> 27
             [] k = 4 -> 81 [] k = 5 -> 243 [] OTHER -> 729
IvcOfIndex(i) == [v \in 1..NumVertices |-> (i \div Pow3(NumVertices - v)) % NumColors]

\* The tally: zero for all 3^6 colourings, plus one per matching.
count_ivc(perfect_matchings) ==
    LET ivcs == {<<pm, get_ivc(pm)>> : pm \in perfect_matchings}
        seen == {p[2] : p \in ivcs}
    IN [ivc \in [1..NumVertices -> 0..(NumColors - 1)] |->
            IF ivc \in seen THEN Cardinality({p \in ivcs : p[2] = ivc}) ELSE 0]

\* Variant of the loop body that applies no rule to multi-coloured entries.
ivc_entry_ok_MonoOnly(result, i) ==
    LET ivc == IvcOfIndex(i)
        count == result[ivc]
    IN IF Cardinality(Range(ivc)) = 1 THEN count # 0 ELSE TRUE

\* One pass of the loop body for tally entry i: FALSE when the body returns False.
ivc_entry_ok(result, i) ==
    LET ivc == IvcOfIndex(i)
        count == result[ivc]
    IN IF Cardinality(Range(ivc)) = 1 THEN count # 0 ELSE count # 1

RECURSIVE ivc_scan(_, _, _)
\* The loop over result.items() in insertion (product) order, entries lo..hi, stopping
\* at the first entry whose body returns False (the left half is scanned first).
ivc_scan(result, lo, hi) ==
    IF lo = hi THEN ivc_entry_ok(result, lo)
    ELSE LET mid == (lo + hi) \div 2
         IN ivc_scan(result, lo, mid) /\ ivc_scan(result, mid + 1, hi)

ivc_conditions(edge_list) ==
    ivc_scan(count_ivc(get_perfect_matchings(edge_list)), 0, NumIvcs - 1)

(***************************************************************************)
(* subgraphChecks.py                                                       *)
(***************************************************************************)
HasKey(d, k) == k \in DOMAIN d.val

\* The value read by d[k] on a defaultdict(set): set() when k is missing.
DictGet(d, k) == IF HasKey(d, k) THEN d.val[k] ELSE {}

\* The defaultdict(set) left by a loop that runs d[k].add(x) for the pairs <<k, x>>
\* of `adds` in order: keys in order of first insertion, each with the set added to it.
DictOfAdds(adds) ==
    LET ks == [i \in 1..Len(adds) |-> adds[i][1]]
    IN [keys |-> Dedup(ks),
        val |-> [k \in Range(ks) |-> {adds[i][2] : i \in {j \in 1..Len(adds) : ks[j] = k}}]]

\* Each edge adds itself under n1, then under n2.
calcEdgesByVertex(es) ==
    DictOfAdds([i \in 1..(2 * Len(es)) |->
        LET edge == es[(i + 1) \div 2]
        IN IF i % 2 = 1 THEN <<edge[1], edge>> ELSE <<edge[2], edge>>])

\* Each edge adds (n2,c2) under (n1,c1), then (n1,c1) under (n2,c2).
calcColoredVertexPairing(es) ==
    DictOfAdds([i \in 1..(2 * Len(es)) |->
        LET edge == es[(i + 1) \div 2]
        IN IF i % 2 = 1 THEN <<<<edge[1], edge[3]>>, <<edge[2], edge[4]>>>>
                        ELSE <<<<edge[2], edge[4]>>, <<edge[1], edge[3]>>>>])

degreeConstraint(cols, edgesByVertex) ==
    IF Len(cols) < 3 THEN TRUE
    ELSE \A v \in DOMAIN edgesByVertex.val :
            LET es == edgesByVertex.val[v]
                skeletonConnections == {<<e[1], e[2]>> : e \in es}
            IN Cardinality(skeletonConnections) > 3
               \/ ~(Cardinality(skeletonConnections) < Cardinality(es))

\* Variant of the loop body without the empty-checkVertices return.
StarARejects_NoEmpty(vs, cnode, cnodes) ==
    LET n1 == cnode[1]
        c1 == cnode[2]
        checkVertices == {n2 \in Range(vs) : n2 # n1 /\ <<n2, c1>> \in cnodes}
        vcolor == {p[1] : p \in {q \in cnodes : q[1] \in checkVertices /\ q[2] # c1}}
    IN checkVertices # {} /\ Cardinality(vcolor) = Cardinality(checkVertices)

\* The body of forbiddenStarA's loop for one centre: TRUE when it returns False.
StarARejects(vs, cnode, cnodes) ==
    LET n1 == cnode[1]
        c1 == cnode[2]
        checkVertices == {n2 \in Range(vs) : n2 # n1 /\ <<n2, c1>> \in cnodes}
        vcolor == {p[1] : p \in {q \in cnodes : q[1] \in checkVertices /\ q[2] # c1}}
    IN checkVertices = {} \/ Cardinality(vcolor) = Cardinality(checkVertices)

forbiddenStarA(cols, vs, cVertexPairs) ==
    IF Len(cols) < 2 THEN TRUE
    ELSE \A i \in 1..Len(cVertexPairs.keys) :
            ~StarARejects(vs, cVertexPairs.keys[i], cVertexPairs.val[cVertexPairs.keys[i]])

(***************************************************************************)
(* forbiddenStarB and forbiddenStarC read cVertexPairs[(n1,c2)] while they *)
(* iterate over cVertexPairs.items().  On a defaultdict the read of a      *)
(* missing key inserts it, and the dict iterator then raises RuntimeError  *)
(* ("dictionary changed size during iteration") when asked for the next    *)
(* item, unless the loop body has returned before.  `grown` records that   *)
(* the body of the current centre has inserted a key.                      *)
(***************************************************************************)
RECURSIVE StarBColors(_, _, _, _, _, _)
\* The loop over c2 for one centre: "False" (return False), else "grown" or "same".
StarBColors(cols, vs, d, cnode, j, grown) ==
    IF j > Len(cols) THEN (IF grown THEN "grown" ELSE "same")
    ELSE LET n1 == cnode[1]
             c1 == cnode[2]
             c2 == cols[j]
             cnodes == d.val[cnode]
             \* the right operand of `or` is evaluated for an n2 whose left operand is false
             looked == \E k \in 1..Len(vs) : vs[k] # n1 /\ <<vs[k], c2>> \notin cnodes
             grown2 == grown \/ (looked /\ ~HasKey(d, <<n1, c2>>))
             other == DictGet(d, <<n1, c2>>)
             checkVertices == {n2 \in Range(vs) :
                                 n2 # n1 /\ (<<n2, c2>> \in cnodes \/ <<n2, c2>> \in other)}
             vcolor == {p[1] : p \in {q \in cnodes : q[1] \in checkVertices /\ q[2] # c2}}
         IN IF c1 = c2 THEN StarBColors(cols, vs, d, cnode, j + 1, grown)
            ELSE IF Len(cols) = 2 /\ Cardinality(checkVertices) = Len(vs) - 1
                 THEN StarBColors(cols, vs, d, cnode, j + 1, grown2)
            ELSE IF Cardinality(checkVertices) = 0 THEN "False"
            ELSE IF Cardinality(vcolor) = Cardinality(checkVertices) THEN "False"
            ELSE StarBColors(cols, vs, d, cnode, j + 1, grown2)

RECURSIVE StarBItems(_, _, _, _)
StarBItems(cols, vs, d, i) ==
    IF i > Len(d.keys) THEN "True"
    ELSE LET r == StarBColors(cols, vs, d, d.keys[i], 1, FALSE)
         IN IF r = "False" THEN "False"
            ELSE IF r = "grown" THEN "RuntimeError"
            ELSE StarBItems(cols, vs, d, i + 1)

forbiddenStarB(cols, vs, cVertexPairs) ==
    IF Len(cols) < 2 THEN "True" ELSE StarBItems(cols, vs, cVertexPairs, 1)

\* The innermost loops of forbiddenStarC: some odd vertex n2 completes a star.
StarCOdd(cnodes, other, c1, checkVertices) ==
    \E p \in other :
        /\ p[2] # c1
        /\ p[1] \in checkVertices
        /\ LET vcolor == {p[1]} \cup
                   {q[1] : q \in {r \in cnodes : r[1] # p[1] /\ r[1] \in checkVertices /\ r[2] # c1}}
           IN Cardinality(vcolor) = Cardinality(checkVertices)

RECURSIVE StarCColors(_, _, _, _, _, _)
StarCColors(cols, vs, d, cnode, j, grown) ==
    IF j > Len(cols) THEN (IF grown THEN "grown" ELSE "same")
    ELSE LET n1 == cnode[1]
             c1 == cnode[2]
             c2 == cols[j]
             cnodes == d.val[cnode]
             looked == \E k \in 1..Len(vs) : vs[k] # n1 /\ <<vs[k], c1>> \notin cnodes
             grown2 == grown \/ (looked /\ ~HasKey(d, <<n1, c2>>))
             \* line 262 reads cVertexPairs[(n1,c2)] whenever it is reached
             grown3 == grown \/ ~HasKey(d, <<n1, c2>>)
             other == DictGet(d, <<n1, c2>>)
             checkVertices == {n2 \in Range(vs) :
                                 n2 # n1 /\ (<<n2, c1>> \in cnodes \/ <<n2, c1>> \in other)}
         IN IF c1 = c2 THEN StarCColors(cols, vs, d, cnode, j + 1, grown)
            ELSE IF Len(cols) = 2 /\ Cardinality(checkVertices) = Len(vs) - 1
                 THEN StarCColors(cols, vs, d, cnode, j + 1, grown2)
            ELSE IF Cardinality(checkVertices) = 0 THEN "False"
            ELSE IF StarCOdd(cnodes, other, c1, checkVertices) THEN "False"
            ELSE StarCColors(cols, vs, d, cnode, j + 1, grown3)

RECURSIVE StarCItems(_, _, _, _)
StarCItems(cols, vs, d, i) ==
    IF i > Len(d.keys) THEN "True"
    ELSE LET r == StarCColors(cols, vs, d, d.keys[i], 1, FALSE)
         IN IF r = "False" THEN "False"
            ELSE IF r = "grown" THEN "RuntimeError"
            ELSE StarCItems(cols, vs, d, i + 1)

forbiddenStarC(cols, vs, cVertexPairs) ==
    IF Len(cols) < 2 THEN "True" ELSE StarCItems(cols, vs, cVertexPairs, 1)

\* colorCollapse: newColors keeps the list order; newEdges is a set built in edge order.
colorCollapseColors(cols, fromColor) == SelectSeq(cols, LAMBDA c : c # fromColor)

colorCollapseEdges(fromColor, toColor, es) ==
    LET transformColor(c) == IF c = fromColor THEN toColor ELSE c
    IN Dedup([i \in 1..Len(es) |->
                <<es[i][1], es[i][2], transformColor(es[i][3]), transformColor(es[i][4])>>])

\* _checkSubgraphConstraints: the four predicates in order, no collapsing.
BaseCheck(vs, cols, es) ==
    LET edgesByVertex == calcEdgesByVertex(es)
        cVertexPairs == calcColoredVertexPairing(es)
    IN IF ~degreeConstraint(cols, edgesByVertex) THEN "False"
       ELSE IF ~forbiddenStarA(cols, vs, cVertexPairs) THEN "False"
       ELSE LET b == forbiddenStarB(cols, vs, cVertexPairs)
            IN IF b # "True" THEN b
               ELSE forbiddenStarC(cols, vs, cVertexPairs)

\* itertools.permutations(colors, 2) in its order: positions (i, j), i # j.
ColorPairs(cols) ==
    LET n == Len(cols)
        all == [k \in 1..(n * n) |-> <<((k - 1) \div n) + 1, ((k - 1) % n) + 1>>]
    IN SelectSeq(all, LAMBDA p : p[1] # p[2])

RECURSIVE CollapseLoop(_, _, _, _, _)
CollapseLoop(vs, cols, es, pairs, k) ==
    IF k > Len(pairs) THEN "True"
    ELSE LET fromColor == cols[pairs[k][1]]
             toColor == cols[pairs[k][2]]
             r == BaseCheck(vs, colorCollapseColors(cols, fromColor),
                            colorCollapseEdges(fromColor, toColor, es))
         IN IF r # "True" THEN r ELSE CollapseLoop(vs, cols, es, pairs, k + 1)

\* Variant that stops after the check of the original edge set.
checkSubgraphConstraints_NoCollapse(vs, cols, es) == BaseCheck(vs, cols, es)

checkSubgraphConstraints(vs, cols, es) ==
    LET r == BaseCheck(vs, cols, es)
    IN IF r # "True" THEN r
       ELSE IF Len(cols) >= 3 THEN CollapseLoop(vs, cols, es, ColorPairs(cols), 1)
       ELSE "True"

\* Variant that runs the subgraph checker alone.
checkGraph_SubgraphOnly(vs, cols, es) == checkSubgraphConstraints(vs, cols, es)

\* checkGraph: the IVC conditions first, then the subgraph checker.
checkGraph(vs, cols, es) ==
    IF ~ivc_conditions(es) THEN "False" ELSE checkSubgraphConstraints(vs, cols, es)

(***************************************************************************)
(* Inputs.  The edge lists of the checks under __main__ of                 *)
(* subgraphChecks.py, a graph accepted by checkGraph, and a graph whose    *)
(* original edge set passes _checkSubgraphConstraints while a colour       *)
(* collapse of it does not.                                                *)
(***************************************************************************)
\* n=4 c=3 should pass checks
PassesFourThree ==
    << <<0, 1, 0, 0>>, <<2, 3, 0, 0>>, <<0, 2, 1, 1>>, <<1, 3, 1, 1>>, <<0, 3, 2, 2>>,
       <<1, 2, 2, 2>> >>

\* n=4 c=2 max edges
MaxEdgesFourTwo ==
    << <<0, 1, 0, 0>>, <<0, 1, 1, 1>>, <<0, 2, 0, 0>>, <<0, 2, 0, 1>>, <<0, 2, 1, 0>>,
       <<0, 2, 1, 1>>, <<0, 3, 0, 0>>, <<0, 3, 0, 1>>, <<0, 3, 1, 0>>, <<0, 3, 1, 1>>,
       <<1, 2, 0, 0>>, <<1, 2, 0, 1>>, <<1, 2, 1, 0>>, <<1, 2, 1, 1>>, <<1, 3, 0, 0>>,
       <<1, 3, 0, 1>>, <<1, 3, 1, 0>>, <<1, 3, 1, 1>>, <<2, 3, 0, 0>>, <<2, 3, 1, 1>> >>

\* n=6 c=2 monochrome edges only appear in multi-edges
MultiEdgesSixTwo ==
    << <<0, 1, 0, 0>>, <<0, 1, 1, 1>>, <<2, 3, 0, 0>>, <<2, 3, 1, 1>>, <<4, 5, 0, 0>>,
       <<4, 5, 1, 1>>, <<1, 3, 0, 1>>, <<3, 5, 0, 1>>, <<1, 5, 1, 0>>, <<0, 2, 0, 1>>,
       <<2, 4, 0, 1>>, <<0, 4, 1, 0>> >>

\* n=6 c=3, not valid, but should pass tests
PassesSixThree ==
    << <<0, 1, 0, 0>>, <<2, 3, 0, 0>>, <<4, 5, 0, 0>>, <<1, 2, 1, 1>>, <<3, 4, 1, 1>>,
       <<0, 5, 1, 1>>, <<0, 2, 2, 2>>, <<3, 5, 2, 2>>, <<1, 4, 2, 2>> >>

\* n=6 c=3, full skeleton graph + one multi-edge, fails starA
FailsStarA ==
    << <<0, 1, 0, 0>>, <<2, 3, 0, 0>>, <<4, 5, 0, 0>>, <<1, 2, 1, 1>>, <<3, 4, 1, 1>>,
       <<0, 5, 1, 1>>, <<0, 3, 0, 0>>, <<1, 5, 1, 1>>, <<2, 4, 1, 1>>, <<0, 2, 2, 2>>,
       <<3, 5, 2, 2>>, <<1, 4, 2, 2>>, <<0, 4, 2, 2>>, <<1, 3, 2, 2>>, <<2, 5, 2, 2>>,
       <<4, 5, 0, 1>> >>

\* n=6 c=3, monochrome star, fails starB
FailsStarB ==
    << <<0, 1, 0, 0>>, <<2, 3, 0, 0>>, <<4, 5, 0, 0>>, <<3, 5, 0, 0>>, <<2, 5, 0, 0>>,
       <<1, 2, 1, 1>>, <<3, 4, 1, 1>>, <<0, 5, 1, 1>>, <<0, 3, 1, 1>>, <<1, 5, 1, 1>>,
       <<2, 4, 1, 1>>, <<0, 2, 2, 2>>, <<3, 5, 2, 2>>, <<1, 4, 2, 2>>, <<0, 4, 2, 2>>,
       <<1, 3, 2, 2>>, <<2, 5, 2, 2>> >>

\* n=6 c=3, fail starC
FailsStarC ==
    << <<0, 1, 0, 0>>, <<2, 3, 0, 0>>, <<4, 5, 0, 0>>, <<1, 2, 1, 1>>, <<3, 4, 1, 1>>,
       <<0, 5, 1, 1>>, <<0, 3, 1, 1>>, <<1, 5, 1, 1>>, <<2, 4, 1, 1>>, <<1, 5, 0, 1>>,
       <<0, 5, 2, 0>>, <<0, 2, 2, 2>>, <<3, 5, 2, 2>>, <<1, 4, 2, 2>>, <<0, 4, 2, 2>>,
       <<1, 3, 2, 2>>, <<2, 5, 2, 2>> >>

\* 49 edges on 6 vertices and 3 colours for which checkGraph returns True.
AcceptedGraph ==
    << <<0, 1, 1, 1>>, <<0, 2, 0, 0>>, <<0, 2, 0, 1>>, <<0, 2, 0, 2>>, <<0, 2, 1, 0>>,
       <<0, 2, 1, 1>>, <<0, 2, 1, 2>>, <<0, 2, 2, 0>>, <<0, 2, 2, 1>>, <<0, 2, 2, 2>>,
       <<0, 3, 2, 2>>, <<0, 4, 0, 0>>, <<0, 5, 0, 0>>, <<0, 5, 0, 1>>, <<0, 5, 0, 2>>,
       <<0, 5, 1, 0>>, <<0, 5, 1, 1>>, <<0, 5, 1, 2>>, <<0, 5, 2, 0>>, <<0, 5, 2, 1>>,
       <<0, 5, 2, 2>>, <<1, 2, 0, 0>>, <<1, 3, 0, 0>>, <<1, 3, 0, 1>>, <<1, 3, 0, 2>>,
       <<1, 4, 2, 2>>, <<1, 5, 0, 0>>, <<1, 5, 0, 1>>, <<1, 5, 0, 2>>, <<2, 3, 0, 2>>,
       <<2, 3, 1, 2>>, <<2, 3, 2, 2>>, <<2, 4, 0, 0>>, <<2, 4, 0, 1>>, <<2, 4, 1, 0>>,
       <<2, 4, 1, 1>>, <<2, 4, 2, 0>>, <<2, 4, 2, 1>>, <<2, 5, 1, 1>>, <<3, 4, 1, 1>>,
       <<3, 5, 2, 0>>, <<3, 5, 2, 1>>, <<3, 5, 2, 2>>, <<4, 5, 0, 0>>, <<4, 5, 0, 1>>,
       <<4, 5, 0, 2>>, <<4, 5, 1, 0>>, <<4, 5, 1, 1>>, <<4, 5, 1, 2>> >>

\* 14 monochromatic edges: the original passes, the collapses 0->1 and 1->0 fail.
CollapseFails ==
    << <<0, 1, 0, 0>>, <<0, 1, 2, 2>>, <<0, 3, 0, 0>>, <<0, 4, 2, 2>>, <<0, 5, 1, 1>>,
       <<1, 2, 0, 0>>, <<1, 3, 1, 1>>, <<1, 3, 2, 2>>, <<1, 5, 1, 1>>, <<2, 4, 1, 1>>,
       <<2, 5, 2, 2>>, <<3, 4, 1, 1>>, <<3, 5, 2, 2>>, <<4, 5, 0, 0>> >>

(***************************************************************************)
(* Bounds of the explored inputs.                                          *)
(***************************************************************************)
\* Longest edge list of the exhaustive small inputs.
MaxEdges == 4
\* Number of edges of SamplePool the driver's random picks range over.
PoolSize == 3
\* Number of edges of SamplePool toggled in the 6-vertex inputs.
GateToggles == 5

\* all_edges, in the order of the loops that build it (combinations x product).
all_edges(vs, cols) ==
    LET nv == Len(vs)
        nc == Len(cols)
        pairs == SelectSeq([k \in 1..(nv * nv) |-> <<((k - 1) \div nv) + 1, ((k - 1) % nv) + 1>>],
                           LAMBDA q : q[1] < q[2])
    IN [k \in 1..(Len(pairs) * nc * nc) |->
            LET q == pairs[((k - 1) \div (nc * nc)) + 1]
                r == (k - 1) % (nc * nc)
            IN <<vs[q[1]], vs[q[2]], cols[(r \div nc) + 1], cols[(r % nc) + 1]>>]

\* A set of edges as a container: its elements in the order of all_edges.
ListOf(S, vs, cols) == SelectSeq(all_edges(vs, cols), LAMBDA e : e \in S)

\* Edges whose presence is varied around the seed graphs.
SamplePool ==
    << <<1, 5, 0, 1>>, <<1, 5, 0, 2>>, <<0, 3, 2, 2>>, <<1, 3, 0, 0>>,
       <<0, 1, 0, 0>>, <<2, 4, 0, 2>>, <<0, 2, 0, 0>>, <<0, 1, 1, 1>> >>

PoolPrefix(n, cols) ==
    {SamplePool[i] : i \in {j \in 1..Len(SamplePool) :
                              j <= n /\ {SamplePool[j][3], SamplePool[j][4]} \subseteq Range(cols)}}

\* The seed with the edges of T removed when present and appended when absent.
Toggle(seed, T) ==
    SelectSeq(seed, LAMBDA e : e \notin T)
        \o SelectSeq(SamplePool, LAMBDA e : e \in T /\ e \notin Range(seed))

RECURSIVE EdgeLists(_, _)
\* The ascending edge lists over U of length at most k.
EdgeLists(U, k) ==
    IF k = 0 THEN {<<>>}
    ELSE LET shorter == EdgeLists(U, k - 1)
         IN shorter \cup
            UNION { {Append(l, e) : e \in {f \in U : l = <<>> \/ TupleLess(l[Len(l)], f)}}
                  : l \in {m \in shorter : Len(m) = k - 1} }

SmallInputs(vs, cols, k) ==
    {[vertices |-> vs, colors |-> cols, edges |-> l] : l \in EdgeLists(Range(all_edges(vs, cols)), k)}

StarInputs ==
    SmallInputs(<<0, 1, 2>>, <<0, 1>>, MaxEdges)
    \cup SmallInputs(<<0, 1, 2>>, <<0, 1, 2>>, MaxEdges - 2)
    \cup SmallInputs(<<0, 1, 2>>, <<0>>, MaxEdges)
    \cup {[vertices |-> <<0, 1, 2, 3>>, colors |-> <<0, 1, 2>>, edges |-> PassesFourThree],
          [vertices |-> <<0, 1, 2, 3>>, colors |-> <<0, 1>>, edges |-> MaxEdgesFourTwo],
          [vertices |-> <<0, 1, 2, 3, 4, 5>>, colors |-> <<0, 1>>, edges |-> MultiEdgesSixTwo],
          [vertices |-> <<0, 1, 2, 3, 4, 5>>, colors |-> <<0, 1, 2>>, edges |-> PassesSixThree],
          [vertices |-> <<0, 1, 2, 3, 4, 5>>, colors |-> <<0, 1, 2>>, edges |-> FailsStarA],
          [vertices |-> <<0, 1, 2, 3, 4, 5>>, colors |-> <<0, 1, 2>>,
           edges |-> SubSeq(FailsStarA, 1, Len(FailsStarA) - 1)],
          [vertices |-> <<0, 1, 2, 3, 4, 5>>, colors |-> <<0, 1, 2>>, edges |-> FailsStarB],
          [vertices |-> <<0, 1, 2, 3, 4, 5>>, colors |-> <<0, 1, 2>>, edges |-> FailsStarC]}

GateSeeds ==
    {[colors |-> <<0, 1>>, edges |-> MultiEdgesSixTwo],
     [colors |-> <<0, 1, 2>>, edges |-> PassesSixThree],
     [colors |-> <<0, 1, 2>>, edges |-> FailsStarA],
     [colors |-> <<0, 1, 2>>, edges |-> FailsStarB],
     [colors |-> <<0, 1, 2>>, edges |-> FailsStarC],
     [colors |-> <<0, 1, 2>>, edges |-> AcceptedGraph],
     [colors |-> <<0, 1, 2>>, edges |-> CollapseFails],
     [colors |-> <<0, 1, 2>>, edges |-> <<>>]}

GateInputs ==
    UNION { {[vertices |-> <<0, 1, 2, 3, 4, 5>>, colors |-> seed.colors,
              edges |-> Toggle(seed.edges, T)] : T \in SUBSET PoolPrefix(GateToggles, seed.colors)}
          : seed \in GateSeeds }

(***************************************************************************)
(* Direct calls of the checking functions on one input.                    *)
(***************************************************************************)
\* The sentinel min_graph_len starts with.
UnsetLen == 666

Str(b) == IF b THEN "True" ELSE "False"

\* The run ID drawn by random.randint(10000000, 99999999), and the ID of another run.
CURR_ID == 10000000
OtherId == 99999999

\* The file solution<number>_<id>.txt of the results directory.
FileName(number, id) == <<number, id>>

\* f"{min_graph}": the text written for a graph.
Text(graph) == [written |-> TRUE, repr |-> graph]

\* The content of a file that open(path, 'w') created or truncated and nothing wrote.
EmptyText == [written |-> FALSE, repr |-> <<>>]

\* glob.glob("results/solution*_<CURR_ID>.txt") on a directory it can list.
Matching(dir) == {name \in DOMAIN dir : name[2] = CURR_ID}

\* int(file.split("solution")[1].split("_")[0])
NumberOf(name) == name[1]

\* The results directory when the run starts: it holds a file of another run.
InitialFiles ==
    [name \in {FileName(Len(AcceptedGraph), OtherId)} |-> Text(AcceptedGraph)]

NoRun ==
    /\ min_graph = <<>>
    /\ min_graph_len = UnsetLen
    /\ all_min_graphs = <<>>
    /\ held = {}
    /\ files = InitialFiles
    /\ files_to_check = {}

InitOf(inputs) ==
    /\ \E inp \in inputs :
          /\ vertices = inp.vertices
          /\ colors = inp.colors
          /\ edges = inp.edges
    /\ pc = "input"
    /\ ret = NoneValue
    /\ NoRun

InitStar == InitOf(StarInputs)

InitGate == InitOf(GateInputs)

Returns(name, value) ==
    /\ pc = "input"
    /\ pc' = name
    /\ ret' = value
    /\ UNCHANGED <<vertices, colors, edges, min_graph, min_graph_len, all_min_graphs, held, files, files_to_check>>

\* The same edges listed in the opposite order.
Relist ==
    /\ pc = "input"
    /\ Reverse(edges) # edges
    /\ edges' = Reverse(edges)
    /\ UNCHANGED <<vertices, colors, pc, ret, min_graph, min_graph_len, all_min_graphs, held, files, files_to_check>>

Call_get_perfect_matchings == Returns("get_perfect_matchings", get_perfect_matchings(edges))

Call_ivc_conditions == Returns("ivc_conditions", Str(ivc_conditions(edges)))

Call_forbiddenStarA ==
    Returns("forbiddenStarA", Str(forbiddenStarA(colors, vertices, calcColoredVertexPairing(edges))))

Call_forbiddenStarB ==
    Returns("forbiddenStarB", forbiddenStarB(colors, vertices, calcColoredVertexPairing(edges)))

Call_forbiddenStarC ==
    Returns("forbiddenStarC", forbiddenStarC(colors, vertices, calcColoredVertexPairing(edges)))

Call_checkSubgraphConstraints ==
    Returns("checkSubgraphConstraints", checkSubgraphConstraints(vertices, colors, edges))

Call_checkGraph == Returns("checkGraph", checkGraph(vertices, colors, edges))

\* The exchanges of two elements of S (the identity among them).
Swaps(S) == {[x \in S |-> IF x = a THEN b ELSE IF x = b THEN a ELSE x] : a \in S, b \in S}

Bijections(S) == {f \in [S -> S] : \A y \in S : \E x \in S : f[x] = y}

Relabel(es, p, s) ==
    [i \in 1..Len(es) |-> <<p[es[i][1]], p[es[i][2]], s[es[i][3]], s[es[i][4]]>>]

\* checkSubgraphConstraints on the edge list relabelled by a vertex and a colour bijection.
Call_relabelled ==
    \E p \in Swaps(Range(vertices)), s \in Bijections(Range(colors)) :
        Returns("relabelled", checkSubgraphConstraints(vertices, colors, Relabel(edges, p, s)))

NextStar ==
    \/ Relist
    \/ Call_forbiddenStarA
    \/ Call_forbiddenStarB
    \/ Call_forbiddenStarC
    \/ Call_checkSubgraphConstraints
    \/ Call_relabelled

SpecStar == InitStar /\ [][NextStar]_vars

NextGate ==
    \/ Relist
    \/ Call_get_perfect_matchings
    \/ Call_ivc_conditions
    \/ Call_checkSubgraphConstraints
    \/ Call_checkGraph

SpecGate == InitGate /\ [][NextGate]_vars

(***************************************************************************)
(* The star predicates and the subgraph checker, stated on the edge set.   *)
(***************************************************************************)
\* n1 and n2 are joined by an edge that carries c1 at n1 and c2 at n2.
Joined(E, n1, c1, n2, c2) == <<n1, n2, c1, c2>> \in E \/ <<n2, n1, c2, c1>> \in E

\* The centres: the pairs (vertex, colour) carried by at least one edge.
Centres(E) == {<<e[1], e[3]>> : e \in E} \cup {<<e[2], e[4]>> : e \in E}

StarAFound(cols, vs, E) ==
    \E cn \in Centres(E) :
        LET n1 == cn[1]
            c1 == cn[2]
            V == {n2 \in Range(vs) : n2 # n1 /\ Joined(E, n1, c1, n2, c1)}
        IN V = {} \/ \A n2 \in V : \E c2 \in Range(cols) \ {c1} : Joined(E, n1, c1, n2, c2)

StarBFound(cols, vs, E) ==
    \E cn \in Centres(E), c2 \in Range(cols) :
        LET n1 == cn[1]
            c1 == cn[2]
            V == {n2 \in Range(vs) :
                    n2 # n1 /\ (Joined(E, n1, c2, n2, c2) \/ Joined(E, n1, c1, n2, c2))}
        IN /\ c2 # c1
           /\ ~(Len(cols) = 2 /\ V = Range(vs) \ {n1})
           /\ \/ V = {}
              \/ \A n3 \in V : \E c3 \in Range(cols) \ {c2} : Joined(E, n1, c1, n3, c3)

StarCFound(cols, vs, E) ==
    \E cn \in Centres(E), c2 \in Range(cols) :
        LET n1 == cn[1]
            c1 == cn[2]
            V == {n2 \in Range(vs) :
                    n2 # n1 /\ (Joined(E, n1, c1, n2, c1) \/ Joined(E, n1, c2, n2, c1))}
        IN /\ c2 # c1
           /\ ~(Len(cols) = 2 /\ V = Range(vs) \ {n1})
           /\ \/ V = {}
              \/ \E n2 \in V :
                    /\ \E c3 \in Range(cols) \ {c1} : Joined(E, n1, c2, n2, c3)
                    /\ \A n3 \in V \ {n2} :
                          \E c4 \in Range(cols) \ {c1} : Joined(E, n1, c1, n3, c4)

\* C4: checkSubgraphConstraints called directly on a well-formed edge set finishes
\* with true or false, never with an error.
C4_NeverRaises ==
    (pc = "checkSubgraphConstraints") => (ret \in {"True", "False"})

\* C6: checkSubgraphConstraints gives the same outcome on the edge set relabelled by
\* a vertex bijection and a colour bijection, and on the same edges listed in the
\* opposite order.
C6_SameOutcome ==
    /\ (pc = "relabelled") => (ret = checkSubgraphConstraints(vertices, colors, edges))
    /\ (pc = "checkSubgraphConstraints") =>
          (ret = checkSubgraphConstraints(vertices, colors, Reverse(edges)))

\* C7: with at least 2 colours forbiddenStarA returns false exactly when some centre
\* (n1, c1) has an empty set V of monochromatic-c1 neighbours or every vertex of V is
\* also joined to n1 by an edge (n1:c1, n2:c2), c2 # c1; with fewer than 2 colours
\* it returns true; the edge (4,5,0,1) beside (4,5,0,0) makes the check fail.
C7_StarA ==
    (pc = "forbiddenStarA") =>
        /\ (Len(colors) < 2) => (ret = "True")
        /\ (Len(colors) >= 2) => (ret = Str(~StarAFound(colors, vertices, Range(edges))))
        /\ (Range(edges) = Range(FailsStarA)) => (ret = "False")
        /\ (Range(edges) = Range(FailsStarA) \ {<<4, 5, 0, 1>>}) => (ret = "True")

\* forbiddenStarA has been called on the edge list that holds (4,5,0,1) beside (4,5,0,0).
C7_Witness ==
    /\ pc = "forbiddenStarA"
    /\ Range(edges) = Range(FailsStarA)
    /\ ret = "False"

\* C8: with at least 2 colours forbiddenStarB returns false exactly when some centre
\* (n1, c1) and colour c2 # c1 have a set V (neighbours by a monochromatic c2 edge or
\* an edge (n1:c1, n2:c2)) that is not skipped (2 colours and V every other vertex)
\* and is empty or fully covered by edges (n1:c1, n3:c3), c3 # c2; else true.
C8_StarB ==
    (pc = "forbiddenStarB" /\ Len(colors) >= 2) =>
        (ret = Str(~StarBFound(colors, vertices, Range(edges))))

\* C9: with at least 2 colours forbiddenStarC returns false exactly when some centre
\* (n1, c1) and colour c2 # c1 have a set V (neighbours by a monochromatic c1 edge or
\* an edge (n1:c2, n2:c1)) that is not skipped and is empty or has an odd vertex with
\* an edge (n1:c2, n2:c3), c3 # c1, all other vertices of V covered by edges
\* (n1:c1, n3:c4), c4 # c1; else true.
C9_StarC ==
    (pc = "forbiddenStarC" /\ Len(colors) >= 2) =>
        (ret = Str(~StarCFound(colors, vertices, Range(edges))))

(***************************************************************************)
(* Matchings, IVC conditions and colour collapses, stated on the edge set. *)
(***************************************************************************)
RECURSIVE PairingsOf(_)
\* The ways to split the vertex set S into unordered pairs, each a tuple of pairs.
PairingsOf(S) ==
    IF S = {} THEN {<<>>}
    ELSE LET a == CHOOSE x \in S : \A y \in S : x <= y
         IN UNION { {<<{a, b}>> \o rest : rest \in PairingsOf(S \ {a, b})} : b \in S \ {a} }

EdgesOn(E, pair) == {e \in E : {e[1], e[2]} = pair}

\* The 3-element subsets of E in which every vertex is an endpoint of exactly one
\* edge: one edge on each pair of a pairing of the vertices.
PerfectMatchings(E) ==
    UNION { {{e1, e2, e3} : e1 \in EdgesOn(E, pairing[1]), e2 \in EdgesOn(E, pairing[2]),
                            e3 \in EdgesOn(E, pairing[3])}
          : pairing \in PairingsOf(AllVertices) }

\* The vertex colouring inherited from the matching M.
InheritedColouring(M) ==
    [v \in AllVertices |->
        CHOOSE c \in 0..(NumColors - 1) :
            \E e \in M : (e[1] = v /\ e[3] = c) \/ (e[2] = v /\ e[4] = c)]

IvcRule(E) ==
    LET coloured == {<<M, InheritedColouring(M)>> : M \in PerfectMatchings(E)}
    IN /\ \A c \in 0..(NumColors - 1) :
             \E q \in coloured : \A v \in AllVertices : q[2][v] = c
       /\ \A q \in coloured :
             (\E v, w \in AllVertices : q[2][v] # q[2][w]) =>
                 \E r \in coloured : r[1] # q[1] /\ r[2] = q[2]

\* The edge set with every occurrence of fromColor replaced by toColor.
Collapsed(E, fromColor, toColor) ==
    LET m(c) == IF c = fromColor THEN toColor ELSE c
    IN {<<e[1], e[2], m(e[3]), m(e[4])>> : e \in E}

AllCollapsesPass(vs, cols, E) ==
    \A fromColor \in Range(cols), toColor \in Range(cols) :
        (fromColor # toColor) =>
            LET rest == SelectSeq(cols, LAMBDA c : c # fromColor)
            IN BaseCheck(vs, rest, ListOf(Collapsed(E, fromColor, toColor), vs, rest)) = "True"

\* C1: checkGraph finishes with a boolean, true exactly when ivc_conditions is true
\* and checkSubgraphConstraints is true on the same edges.
C1_Gate ==
    (pc = "checkGraph") =>
        /\ ret \in {"True", "False"}
        /\ (ret = "True") <=>
              (ivc_conditions(edges) /\ checkSubgraphConstraints(vertices, colors, edges) = "True")

\* checkGraph has accepted an edge set.
C1_Witness == pc = "checkGraph" /\ ret = "True" /\ Len(edges) > 0

\* C2: get_perfect_matchings returns exactly the 3-element subsets of the edges that
\* cover every vertex once, each once and as a sorted tuple, whatever the edge order.
C2_Matchings ==
    (pc = "get_perfect_matchings") =>
        LET expected == PerfectMatchings(Range(edges))
        IN /\ {Range(m) : m \in ret} = expected
           /\ Cardinality(ret) = Cardinality(expected)
           /\ \A m \in ret : Len(m) = 3 /\ TupleLess(m[1], m[2]) /\ TupleLess(m[2], m[3])

\* Two returned matchings use the same vertex pairs with different colour pairs.
C2_Witness ==
    /\ pc = "get_perfect_matchings"
    /\ \E m1 \in ret, m2 \in ret :
          /\ m1 # m2
          /\ \A i \in 1..3 : m1[i][1] = m2[i][1] /\ m1[i][2] = m2[i][2]

\* C3: ivc_conditions is true exactly when every all-c colouring is the IVC of at
\* least one perfect matching and no colouring with two or more colours is the IVC of
\* exactly one perfect matching.
C3_IvcConditions ==
    (pc = "ivc_conditions") => (ret = Str(IvcRule(Range(edges))))

\* ivc_conditions has returned true on a graph with multi-coloured matchings.
C3_Witness ==
    /\ pc = "ivc_conditions"
    /\ ret = "True"
    /\ \E e \in Range(edges) : e[3] # e[4]

\* C5: with 3 colours checkSubgraphConstraints is true exactly when the base checker
\* passes on the original edges and on each of the 6 colour collapses, and false when
\* the base checker passes but a collapse fails; with fewer colours it equals the
\* base checker's result.
C5_Collapse ==
    (pc = "checkSubgraphConstraints") =>
        IF Len(colors) = 3
        THEN LET base == BaseCheck(vertices, colors, edges) = "True"
                 collapses == AllCollapsesPass(vertices, colors, Range(edges))
             IN /\ (ret = "True") <=> (base /\ collapses)
                /\ (base /\ ~collapses) => (ret = "False")
        ELSE ret = BaseCheck(vertices, colors, edges)

\* The base checker passes on the original edges and the result is false.
C5_Witness ==
    /\ pc = "checkSubgraphConstraints"
    /\ Len(colors) = 3
    /\ ret = "False"
    /\ BaseCheck(vertices, colors, edges) = "True"

(***************************************************************************)
(* checkCounterExample.py: the search driver.                              *)
(*                                                                         *)
(* `edges` is a Python set; its iteration order is taken to be the order   *)
(* of all_edges.  random.sample ranges over the first PoolSize edges of    *)
(* SamplePool, randomGraph over the seed graphs with those edges varied.   *)
(* pc names the statement the driver is about to run.                      *)
(***************************************************************************)
\* random.randint(1,5) of the search loop and random.choice([1,2,3,4]) of the
\* minimisation loop.
MaxSearchStep == 5
MaxRemoveStep == 4

DriverVertices == [i \in 1..NumVertices |-> i - 1]
DriverColors == [i \in 1..NumColors |-> i - 1]

full_edge_set == Range(all_edges(DriverVertices, DriverColors))

AsContainer(S) == ListOf(S, DriverVertices, DriverColors)

Pool == PoolPrefix(PoolSize, DriverColors)

Samples(S, n) == {T \in SUBSET S : Cardinality(T) = n}

\* The graphs randomGraph returns in the model.
randomGraph ==
    UNION { {AsContainer((seed \ T) \cup (T \ seed)) : T \in SUBSET Pool}
          : seed \in {Range(AcceptedGraph), {<<0, 1, 0, 0>>}} }

\* The values of `edges` randomAddEdges can leave.
randomAddEdges(es, n) ==
    LET missing_edges == full_edge_set \ Range(es)
    IN IF Cardinality(missing_edges) < n
       THEN {AsContainer(Range(es) \cup missing_edges)}
       ELSE {AsContainer(Range(es) \cup subset) : subset \in Samples(missing_edges \cap Pool, n)}

\* The values of the caller's `edges` randomRemoveEdges can leave: the assignment
\* edges = set() rebinds the local name only.
randomRemoveEdges(es, n) ==
    IF Len(es) < n
    THEN {es}
    ELSE {SelectSeq(es, LAMBDA e : e \notin subset) : subset \in Samples(Range(es) \cap Pool, n)}

Init ==
    /\ vertices = DriverVertices
    /\ colors = DriverColors
    /\ all_min_graphs = <<>>
    /\ min_graph = <<>>
    /\ min_graph_len = UnsetLen
    /\ edges \in randomGraph
    /\ pc = "search_check"
    /\ ret = NoneValue
    /\ held = {}
    /\ files = InitialFiles
    /\ files_to_check = {}

\* while not checkGraph(vertices, colors, edges)
SearchCheck ==
    /\ pc = "search_check"
    /\ ret' = checkGraph(vertices, colors, edges)
    /\ pc' = CASE ret' = "True" -> "minimise_head"
               [] ret' = "False" -> "search_mutate"
               [] OTHER -> "raised"
    /\ UNCHANGED <<vertices, colors, edges, min_graph, min_graph_len, all_min_graphs, held, files, files_to_check>>

\* "Start completely from scratch"
SearchFromScratch ==
    /\ pc = "search_mutate"
    /\ edges' \in randomGraph
    /\ pc' = "search_check"
    /\ UNCHANGED <<vertices, colors, ret, min_graph, min_graph_len, all_min_graphs, held, files, files_to_check>>

SearchAdd ==
    /\ pc = "search_mutate"
    /\ \E n \in 1..MaxSearchStep : edges' \in randomAddEdges(edges, n)
    /\ pc' = "search_check"
    /\ UNCHANGED <<vertices, colors, ret, min_graph, min_graph_len, all_min_graphs, held, files, files_to_check>>

SearchRemove ==
    /\ pc = "search_mutate"
    /\ \E n \in 1..MaxSearchStep : edges' \in randomRemoveEdges(edges, n)
    /\ pc' = "search_check"
    /\ UNCHANGED <<vertices, colors, ret, min_graph, min_graph_len, all_min_graphs, held, files, files_to_check>>

\* Variant of the head of the minimisation loop that compares with <=.
MinimiseHead_Leq ==
    /\ pc = "minimise_head"
    /\ held' = held \cup {<<edges, ret>>}
    /\ IF Len(edges) <= min_graph_len
       THEN /\ min_graph' = edges
            /\ min_graph_len' = Len(edges)
            /\ pc' = "checkpoint_write"
       ELSE /\ UNCHANGED <<min_graph, min_graph_len>>
            /\ pc' = "minimise_remove"
    /\ UNCHANGED <<vertices, colors, edges, ret, all_min_graphs, files, files_to_check>>

\* The head of the minimisation loop: min_graph = list(edges) is a copy; a new best
\* is checkpointed before it is appended to all_min_graphs.  `held` collects the
\* candidates that reached the head, each with the result checkGraph gave for it.
MinimiseHead ==
    /\ pc = "minimise_head"
    /\ held' = held \cup {<<edges, ret>>}
    /\ IF Len(edges) < min_graph_len
       THEN /\ min_graph' = edges
            /\ min_graph_len' = Len(edges)
            /\ pc' = "checkpoint_write"
       ELSE /\ UNCHANGED <<min_graph, min_graph_len>>
            /\ pc' = "minimise_remove"
    /\ UNCHANGED <<vertices, colors, edges, ret, all_min_graphs, files, files_to_check>>

\* path = os.path.join("results", f"solution{len(min_graph)}_{CURR_ID}.txt")
path == FileName(Len(min_graph), CURR_ID)

WriteFile(dir, name, text) ==
    [n \in DOMAIN dir \cup {name} |-> IF n = name THEN text ELSE dir[n]]

RemoveFile(dir, name) == [n \in DOMAIN dir \ {name} |-> dir[n]]

\* with open(path, 'w') as file: file.write(f"{min_graph}")
CheckpointWrite ==
    /\ pc = "checkpoint_write"
    /\ files' = WriteFile(files, path, Text(min_graph))
    /\ pc' = "checkpoint_list"
    /\ UNCHANGED <<vertices, colors, edges, ret, min_graph, min_graph_len, all_min_graphs,
                   held, files_to_check>>

\* open raises (the directory is left as it is), or open has created or truncated the
\* file and write raises: the except clause is entered.
CheckpointWriteFails ==
    /\ pc = "checkpoint_write"
    /\ files' \in {files, WriteFile(files, path, EmptyText)}
    /\ pc' = "checkpoint_sleep"
    /\ UNCHANGED <<vertices, colors, edges, ret, min_graph, min_graph_len, all_min_graphs,
                   held, files_to_check>>

\* files_to_check = glob.glob(pattern)
CheckpointList ==
    /\ pc = "checkpoint_list"
    /\ files_to_check' = Matching(files)
    /\ pc' = "checkpoint_clean"
    /\ UNCHANGED <<vertices, colors, edges, ret, min_graph, min_graph_len, all_min_graphs,
                   held, files>>

\* The directory listing fails: glob.glob catches the OSError of os.scandir and
\* returns the names it has seen so far, without raising.
CheckpointListFails ==
    /\ pc = "checkpoint_list"
    /\ files_to_check' \in (SUBSET Matching(files)) \ {Matching(files)}
    /\ pc' = "checkpoint_clean"
    /\ UNCHANGED <<vertices, colors, edges, ret, min_graph, min_graph_len, all_min_graphs,
                   held, files>>

\* One pass of the loop over files_to_check: os.remove when the number differs.
CheckpointClean ==
    /\ pc = "checkpoint_clean"
    /\ \E file \in files_to_check :
          /\ files_to_check' = files_to_check \ {file}
          /\ files' = IF NumberOf(file) # Len(min_graph)
                      THEN RemoveFile(files, file)
                      ELSE files
    /\ UNCHANGED <<vertices, colors, edges, pc, ret, held, min_graph, min_graph_len,
                   all_min_graphs>>

\* os.remove raises: the except clause is entered.
CheckpointRemoveFails ==
    /\ pc = "checkpoint_clean"
    /\ \E file \in files_to_check : NumberOf(file) # Len(min_graph)
    /\ pc' = "checkpoint_sleep"
    /\ UNCHANGED <<vertices, colors, edges, ret, min_graph, min_graph_len, all_min_graphs,
                   held, files, files_to_check>>

\* except: time.sleep(0.1); did_write is still False, so the loop body runs again.
CheckpointSleep ==
    /\ pc = "checkpoint_sleep"
    /\ pc' = "checkpoint_write"
    /\ UNCHANGED <<vertices, colors, edges, ret, min_graph, min_graph_len, all_min_graphs,
                   held, files, files_to_check>>

\* did_write=True ends the loop; all_min_graphs.append(min_graph)
CheckpointDone ==
    /\ pc = "checkpoint_clean"
    /\ files_to_check = {}
    /\ all_min_graphs' = Append(all_min_graphs, min_graph)
    /\ pc' = "minimise_remove"
    /\ UNCHANGED <<vertices, colors, edges, ret, min_graph, min_graph_len, held, files,
                   files_to_check>>

MinimiseRemove ==
    /\ pc = "minimise_remove"
    /\ \E num_elements \in 1..MaxRemoveStep : edges' \in randomRemoveEdges(edges, num_elements)
    /\ pc' = "minimise_check"
    /\ UNCHANGED <<vertices, colors, ret, min_graph, min_graph_len, all_min_graphs, held, files, files_to_check>>

\* res = checkGraph(...); if not res: break
MinimiseCheck ==
    /\ pc = "minimise_check"
    /\ ret' = checkGraph(vertices, colors, edges)
    /\ pc' = CASE ret' = "True" -> "minimise_head"
               [] ret' = "False" -> "new_graph"
               [] OTHER -> "raised"
    /\ UNCHANGED <<vertices, colors, edges, min_graph, min_graph_len, all_min_graphs, held, files, files_to_check>>

\* edges = randomGraph(all_edges, 0.5) at the top of the loop body
NewGraph ==
    /\ pc = "new_graph"
    /\ edges' \in randomGraph
    /\ pc' = "search_check"
    /\ UNCHANGED <<vertices, colors, ret, min_graph, min_graph_len, all_min_graphs, held, files, files_to_check>>

Next ==
    \/ SearchCheck
    \/ SearchFromScratch
    \/ SearchAdd
    \/ SearchRemove
    \/ MinimiseHead
    \/ CheckpointWrite
    \/ CheckpointWriteFails
    \/ CheckpointList
    \/ CheckpointListFails
    \/ CheckpointClean
    \/ CheckpointRemoveFails
    \/ CheckpointSleep
    \/ CheckpointDone
    \/ MinimiseRemove
    \/ MinimiseCheck
    \/ NewGraph

Spec == Init /\ [][Next]_vars

\* The statements of the while-not-did_write loop and the append after it.
CheckpointStep ==
    \/ CheckpointWrite
    \/ CheckpointWriteFails
    \/ CheckpointList
    \/ CheckpointListFails
    \/ CheckpointClean
    \/ CheckpointRemoveFails
    \/ CheckpointSleep
    \/ CheckpointDone

\* The driver is one sequential process: once it is in the write-and-clean-up step
\* it always runs the next statement of that step.
FairSpec == Spec /\ WF_vars(CheckpointStep)

\* The statements of the write-and-clean-up step.
InCheckpoint ==
    pc \in {"checkpoint_write", "checkpoint_list", "checkpoint_clean", "checkpoint_sleep"}

\* C10: the best-known minimal graph is unset or a candidate for which checkGraph
\* returned true; min_graph_len is its number of edges; each recorded best has
\* strictly fewer edges than the one before (a new best that is being checkpointed
\* has fewer edges than the last one appended); it is no larger than any candidate that
\* has reached the head of the minimisation loop, and each of those passed checkGraph.
C10_BestKnown ==
    /\ \/ min_graph = <<>> /\ min_graph_len = UnsetLen /\ all_min_graphs = <<>>
       \/ /\ <<min_graph, "True">> \in held
          /\ min_graph_len = Len(min_graph)
          /\ IF InCheckpoint
             THEN \/ all_min_graphs = <<>>
                  \/ Len(min_graph) < Len(all_min_graphs[Len(all_min_graphs)])
             ELSE /\ all_min_graphs # <<>>
                  /\ all_min_graphs[Len(all_min_graphs)] = min_graph
    /\ \A i \in 1..(Len(all_min_graphs) - 1) :
          Len(all_min_graphs[i + 1]) < Len(all_min_graphs[i])
    /\ \A h \in held : h[2] = "True" /\ min_graph_len <= Len(h[1])
    /\ (pc = "minimise_head") => (ret = "True")

\* The best-known graph has been replaced by a smaller one.
C10_Witness ==
    /\ Len(all_min_graphs) >= 2
    /\ pc = "minimise_remove"
    /\ min_graph = edges

\* C11: outside its write-and-clean-up step the results directory holds at most one
\* file of the run's ID; after a completed step that file is solution<N>_<runID>.txt
\* with N the edge count of the best-known graph and the text of that graph as its
\* content, whatever write, listing and delete failures were retried; and the file of
\* another run ID is neither deleted nor overwritten.
C11_OneFilePerRun ==
    /\ (~InCheckpoint) =>
          /\ Cardinality(Matching(files)) <= 1
          /\ (min_graph # <<>>) =>
                /\ Matching(files) = {path}
                /\ files[path] = Text(min_graph)
    /\ FileName(Len(AcceptedGraph), OtherId) \in DOMAIN files
    /\ files[FileName(Len(AcceptedGraph), OtherId)] = Text(AcceptedGraph)

\* C12: one checkpoint step makes a bounded number of attempts, so a run that has
\* entered the step resumes mutating candidates even when the failure persists.
C12_StepEnds == (pc = "checkpoint_write") ~> (pc = "minimise_remove")

====
